---- MODULE Spec2Model ----
(***************************************************************************)
(* A model of tyler's spatial index (src/src/spatial_structs.rs) and of    *)
(* the control flow of its entry point (src/src/main.rs).                  *)
(*                                                                         *)
(* Coordinates are f64 in the source.  Here they are fixed-point numbers:  *)
(* the integer v stands for the coordinate v / Scale, and the arithmetic   *)
(* is exact.  A cellsize is a whole number of units (u16 in the source).   *)
(* Rust arrays are 0-based, TLA+ tuples 1-based: extent[0] is ext[1],      *)
(* cell_id[0] is cell[1].  The backing array `data` is a function on       *)
(* 0..length, indexed as in the source.                                    *)
(***************************************************************************)
EXTENDS Integers, Sequences, FiniteSets, TLC

VARIABLES
    extent,     \* the Bbox given to SquareGrid::new
    grid,       \* the SquareGrid
    calls,      \* history: one record per SquareGrid::insert call
    panicked,   \* an index out of bounds aborted the process
    located,    \* <<>> or <<[point, cell]>>: the last locate_point call
    iter,       \* the SquareGridIterator, when one exists
    yielded,    \* history: the items the iterator returned, in order
    pc,         \* main: the statement about to run
    result,     \* main: "none" while running, then "Ok", "Err" or "Panic"
    cfg,        \* main: what the command line and the environment decide
    tiles,      \* main: the tiles of tileset.flatten, each with its nr_items
    tileset,    \* main: the in-memory Tileset
    fs,         \* main: the files and directories main writes
    export,     \* main: per tile, what the export loop did
    quadtree,   \* the QuadTree: <<>> until it is built, then <<its nodes>>
    bboxed,     \* <<>> or <<[cell, bbox]>>: the last cell_bbox call
    morton      \* history: one record per morton_encode call

gridVars == <<extent, grid, calls, panicked, located, iter, yielded>>
mainVars == <<pc, result, cfg, tiles, tileset, fs, export>>
auxVars == <<quadtree, bboxed, morton>>
vars == <<extent, grid, calls, panicked, located, iter, yielded,
          pc, result, cfg, tiles, tileset, fs, export,
          quadtree, bboxed, morton>>

(***************************************************************************)
(* Bounds of the model.                                                    *)
(***************************************************************************)
Scale == 2          \* fixed-point resolution: coordinates are multiples of 1/Scale
MaxSpan == 4        \* widest extent, in units, per axis
MaxInserts == 2     \* insert calls per grid
MaxTiles == 5       \* tiles that tileset.flatten returns

FeatureIds == {0, 1}
CellSizes == {1, 4, 8, 24}
Corners == {<<0, 0>>, <<-3, 2>>}

(***************************************************************************)
(* Arithmetic of the source.                                               *)
(***************************************************************************)
Abs(v) == IF v < 0 THEN -v ELSE v

\* f64::ceil of the quotient a / b, for b > 0 (\div rounds down).
Ceil(a, b) == -((-a) \div b)

\* `as usize` of a float: a negative value saturates to 0.
AsUsize(v) == IF v < 0 THEN 0 ELSE v

\* let buffer = 10_f64;
Buffer == 10

(***************************************************************************)
(* SquareGrid                                                              *)
(***************************************************************************)
\* The mutants of GridLength: the buffer left out of the side, and the
\* shorter side taken for the longer.
GridLength_NoBuffer(ext, cellsize) ==
    LET dx == Abs(ext[4] - ext[1])
        dy == Abs(ext[5] - ext[2])
        gridsize == IF dx > dy THEN dx ELSE dy
    IN  AsUsize(Ceil(gridsize, cellsize * Scale))

GridLength_ShortSide(ext, cellsize) ==
    LET buffer == Buffer * Scale
        dx == Abs(ext[4] - ext[1]) + buffer * 2
        dy == Abs(ext[5] - ext[2]) + buffer * 2
        gridsize == IF dx < dy THEN dx ELSE dy
    IN  AsUsize(Ceil(gridsize, cellsize * Scale))

\* The `length` of SquareGrid::new.
GridLength(ext, cellsize) ==
    LET buffer == Buffer * Scale
        dx == Abs(ext[4] - ext[1]) + buffer * 2
        dy == Abs(ext[5] - ext[2]) + buffer * 2
        gridsize == IF dx > dy THEN dx ELSE dy
    IN  AsUsize(Ceil(gridsize, cellsize * Scale))

SquareGridNew(ext, cellsize) ==
    LET buffer == Buffer * Scale
        length == GridLength(ext, cellsize)
    IN  [origin |-> <<ext[1] - buffer, ext[2] - buffer>>,
         bbox |-> <<ext[1] - buffer, ext[2] - buffer, ext[3] - buffer,
                    ext[4] + buffer, ext[5] + buffer, ext[6] + buffer>>,
         length |-> length,
         cellsize |-> cellsize,
         data |-> [i \in 0..length |-> [j \in 0..length |-> <<>>]]]

locate_point(g, point) ==
    LET dx == point[1] - g.origin[1]
        dy == point[2] - g.origin[2]
        row_i == AsUsize(Ceil(dx, g.cellsize * Scale))
        col_i == AsUsize(Ceil(dy, g.cellsize * Scale))
    IN  <<row_i, col_i>>

\* Whether self.data[cell_id[0]][cell_id[1]] is inside both vectors.
InBounds(g, cell) ==
    /\ cell[1] \in DOMAIN g.data
    /\ cell[2] \in DOMAIN g.data[cell[1]]

\* The mutant of Push: the cell is overwritten.
Push_Replace(cell, feature_id) == <<feature_id>>

\* Vec::push
Push(cell, feature_id) == Append(cell, feature_id)

\* The grid after self.data[cell_id[0]][cell_id[1]].push(feature_id).
Pushed(g, cell_id, feature_id) ==
    [g EXCEPT !.data[cell_id[1]][cell_id[2]] = Push(@, feature_id)]

(***************************************************************************)
(* Inputs.                                                                 *)
(***************************************************************************)
\* An extent: min <= max per axis, the z range fixed.
Extents ==
    {<<c[1] * Scale, c[2] * Scale, 0,
       (c[1] + sx) * Scale, (c[2] + sy) * Scale, 4 * Scale>> :
        c \in Corners, sx \in 0..MaxSpan, sy \in 0..MaxSpan}

\* The extent [0, 0, 0, 4, 4, 4] of the documentation and the unit test.
ExampleExtent == <<0, 0, 0, 4 * Scale, 4 * Scale, 4 * Scale>>

InExtent(ext, point) ==
    /\ ext[1] <= point[1] /\ point[1] <= ext[4]
    /\ ext[2] <= point[2] /\ point[2] <= ext[5]

\* The points of the extent, at the model's resolution.
ExtentPoints(ext) == (ext[1]..ext[4]) \X (ext[2]..ext[5])

\* Points outside the extent: one whose index lies past the backing array,
\* one so far below the origin that the index saturates at 0.
OutsidePoints(g, ext) ==
    {<<g.origin[1] + (g.length + 1) * g.cellsize * Scale, ext[2]>>,
     <<g.origin[1] - Scale, ext[2]>>}

Points(g, ext) == ExtentPoints(ext) \cup OutsidePoints(g, ext)

NoIter == [active |-> FALSE, row_index |-> 0, col_index |-> 0, exhausted |-> FALSE]

NoFiles == [manifest |-> "absent", manifest_writes |-> 0,
            inputs_dir |-> FALSE, tiles_dir |-> FALSE]

NoTileset == [built |-> FALSE, content |-> FALSE, implicit |-> FALSE]

\* No quadtree, no cell_bbox call, no morton_encode call yet.
AuxIdle ==
    /\ quadtree = <<>>
    /\ bboxed = <<>>
    /\ morton = <<>>

\* Where main's variables rest while the grid is exercised on its own.
MainIdle ==
    /\ pc = "grid"
    /\ result = "none"
    /\ cfg = [debug |-> FALSE, grid_export |-> FALSE, args_valid |-> TRUE,
              exe_gltfpack |-> FALSE, inputs_dir_exists |-> FALSE,
              nr_items |-> <<>>]
    /\ tiles = <<>>
    /\ tileset = NoTileset
    /\ fs = NoFiles
    /\ export = <<>>

(***************************************************************************)
(* SquareGrid::insert                                                      *)
(***************************************************************************)
\* An index past the end of a Vec panics; otherwise the id is pushed to the
\* located cell and the cell id is returned.
Insert(point, feature_id) ==
    /\ ~panicked
    /\ ~iter.active /\ ~iter.exhausted
    /\ Len(calls) < MaxInserts
    /\ LET cell_id == locate_point(grid, point)
       IN  /\ calls' = Append(calls, [fid |-> feature_id, cell |-> cell_id,
                                       inside |-> InExtent(extent, point)])
           /\ IF InBounds(grid, cell_id)
              THEN /\ grid' = Pushed(grid, cell_id, feature_id)
                   /\ UNCHANGED panicked
              ELSE /\ panicked' = TRUE
                   /\ UNCHANGED grid
    /\ UNCHANGED <<extent, located, iter, yielded>>
    /\ UNCHANGED mainVars
    /\ UNCHANGED auxVars

(***************************************************************************)
(* SquareGrid::locate_point, called on its own                             *)
(***************************************************************************)
LocatePoint(point) ==
    /\ located' = <<[point |-> point, cell |-> locate_point(grid, point)]>>
    /\ bboxed' = <<>>
    /\ UNCHANGED <<extent, grid, calls, panicked, iter, yielded>>
    /\ UNCHANGED mainVars
    /\ UNCHANGED <<quadtree, morton>>

(***************************************************************************)
(* SquareGrid::cell_bbox, called with the cell id locate_point returned    *)
(***************************************************************************)
\* The box of the cell: its minimum corner is origin + cellid * cellsize,
\* its z range is the one of the grid's box.
cell_bbox(g, cellid) ==
    LET minx == g.origin[1] + (cellid[1] * g.cellsize) * Scale
        miny == g.origin[2] + (cellid[2] * g.cellsize) * Scale
        minz == g.bbox[3]
        maxx == minx + g.cellsize * Scale
        maxy == miny + g.cellsize * Scale
        maxz == g.bbox[6]
    IN  <<minx, miny, minz, maxx, maxy, maxz>>

CellBbox ==
    /\ located # <<>>
    /\ bboxed = <<>>
    /\ bboxed' = <<[cell |-> located[1].cell,
                    bbox |-> cell_bbox(grid, located[1].cell)]>>
    /\ UNCHANGED <<quadtree, morton>>
    /\ UNCHANGED gridVars
    /\ UNCHANGED mainVars

(***************************************************************************)
(* IntoIterator for &SquareGrid, SquareGridIterator::next                  *)
(***************************************************************************)
IntoIter ==
    /\ ~panicked
    /\ ~iter.active /\ ~iter.exhausted
    /\ iter' = [active |-> TRUE, row_index |-> 0, col_index |-> 0,
                exhausted |-> FALSE]
    /\ yielded' = <<>>
    /\ UNCHANGED <<extent, grid, calls, panicked, located>>
    /\ UNCHANGED mainVars
    /\ UNCHANGED auxVars

\* One call of next(): [row_index, col_index, item], item <<>> for None.
\* The item pairs the id [row_index, col_index] with the cell
\* items[col_index][row_index]; `at` records which element of the backing
\* array the returned reference points to.
\* The mutant of IterStep: row_index is left where the last column ended.
RECURSIVE IterStep_NoReset(_, _, _)
IterStep_NoReset(items, row_index, col_index) ==
    IF col_index \in DOMAIN items
    THEN IF row_index \in DOMAIN items[col_index]
         THEN [row_index |-> row_index + 1, col_index |-> col_index,
               item |-> <<[id |-> <<row_index, col_index>>,
                           at |-> <<col_index, row_index>>,
                           cell |-> items[col_index][row_index]]>>]
         ELSE IterStep_NoReset(items, row_index, col_index + 1)
    ELSE [row_index |-> row_index, col_index |-> col_index, item |-> <<>>]

RECURSIVE IterStep(_, _, _)
IterStep(items, row_index, col_index) ==
    IF col_index \in DOMAIN items
    THEN IF row_index \in DOMAIN items[col_index]
         THEN [row_index |-> row_index + 1, col_index |-> col_index,
               item |-> <<[id |-> <<row_index, col_index>>,
                           at |-> <<col_index, row_index>>,
                           cell |-> items[col_index][row_index]]>>]
         ELSE IterStep(items, 0, col_index + 1)
    ELSE [row_index |-> row_index, col_index |-> col_index, item |-> <<>>]

IterNext ==
    /\ iter.active
    /\ LET r == IterStep(grid.data, iter.row_index, iter.col_index)
       IN  /\ iter' = [active |-> r.item # <<>>, row_index |-> r.row_index,
                       col_index |-> r.col_index, exhausted |-> r.item = <<>>]
           /\ yielded' = yielded \o r.item
    /\ UNCHANGED <<extent, grid, calls, panicked, located>>
    /\ UNCHANGED mainVars
    /\ UNCHANGED auxVars

(***************************************************************************)
(* Specifications of the grid.                                             *)
(***************************************************************************)
IndexCellSizes == {4, 8}

IndexExtents ==
    {e \in Extents : /\ e[4] - e[1] \in {0, MaxSpan * Scale}
                     /\ e[5] - e[2] \in {0, MaxSpan * Scale}}

GridInit(exts, sizes) ==
    /\ extent \in exts
    /\ \E cellsize \in sizes : grid = SquareGridNew(extent, cellsize)
    /\ calls = <<>>
    /\ panicked = FALSE
    /\ located = <<>>
    /\ iter = NoIter
    /\ yielded = <<>>
    /\ MainIdle
    /\ AuxIdle

\* Indexing, then iteration: insert calls on a new grid, then a pass of the
\* iterator over it.
Init == GridInit(IndexExtents, IndexCellSizes)

Next ==
    \/ \E p \in Points(grid, extent), f \in FeatureIds : Insert(p, f)
    \/ IntoIter
    \/ IterNext

Spec == Init /\ [][Next]_vars

\* SquareGrid::new and locate_point as functions of their arguments.
InitLocate == GridInit(Extents, CellSizes)

NextLocate ==
    \/ \E p \in Points(grid, extent) : LocatePoint(p)
    \/ CellBbox

SpecLocate == InitLocate /\ [][NextLocate]_vars

(***************************************************************************)
(* QuadTree                                                                *)
(*                                                                         *)
(* main.rs builds a spatial_structs::QuadTree and reads node(), nr_items,  *)
(* cells() and bbox() of it; the type itself is described in the design    *)
(* document only (sections 3 and 4.2), and is modelled from there.  A node *)
(* covers the cells x0..x1 by y0..y1 of the grid, has the id (depth, x, y) *)
(* of its quadrant at its depth, and is a leaf or has four children.       *)
(***************************************************************************)
\* The capacity criteria: a maximum of features, or of vertices, per node.
Capacities ==
    {[kind |-> "Objects", max |-> 0], [kind |-> "Objects", max |-> 1],
     [kind |-> "Vertices", max |-> 4]}

\* The vertices of a feature, for the vertex criterion.
NrVertices(f) == 3 + 2 * f

\* Every (column, row, position) of the grid g that holds an id, within a range.
SlotsIn(g, x0, y0, x1, y1) ==
    UNION {{<<i, j, k>> : k \in DOMAIN g.data[i][j]} : i \in x0..x1, j \in y0..y1}

RECURSIVE SumVertices(_, _)
SumVertices(g, slots) ==
    IF slots = {} THEN 0
    ELSE LET s == CHOOSE s \in slots : TRUE
         IN  NrVertices(g.data[s[1]][s[2]][s[3]]) + SumVertices(g, slots \ {s})

\* The count of a range under the criterion.
CountIn(g, cap, x0, y0, x1, y1) ==
    IF cap.kind = "Objects"
    THEN Cardinality(SlotsIn(g, x0, y0, x1, y1))
    ELSE SumVertices(g, SlotsIn(g, x0, y0, x1, y1))

\* A range can be halved when it is at least 2 x 2 cells.
CanHalve(x0, y0, x1, y1) == x1 - x0 + 1 >= 2 /\ y1 - y0 + 1 >= 2

\* The mutant of ShouldSplit: a node at its maximum is split, too.
ShouldSplit_AtMax(count, max, x0, y0, x1, y1) ==
    count >= max /\ CanHalve(x0, y0, x1, y1)

\* A node is split iff its count exceeds the maximum and its range can be
\* halved.
ShouldSplit(count, max, x0, y0, x1, y1) ==
    count > max /\ CanHalve(x0, y0, x1, y1)

\* The mutant of Quadrants: the upper quadrants start one row early.
Quadrants_Overlap(x0, y0, x1, y1) ==
    LET mx == x0 + (x1 - x0 + 1) \div 2
        my == y0 + (y1 - y0 + 1) \div 2
    IN  <<[qx |-> 0, qy |-> 0, x0 |-> x0, y0 |-> y0, x1 |-> mx - 1, y1 |-> my - 1],
          [qx |-> 1, qy |-> 0, x0 |-> mx, y0 |-> y0, x1 |-> x1, y1 |-> my - 1],
          [qx |-> 0, qy |-> 1, x0 |-> x0, y0 |-> my - 1, x1 |-> mx - 1, y1 |-> y1],
          [qx |-> 1, qy |-> 1, x0 |-> mx, y0 |-> my - 1, x1 |-> x1, y1 |-> y1]>>

\* The four quadrants of a range, in a fixed order: lower-left, lower-right,
\* upper-left, upper-right.
Quadrants(x0, y0, x1, y1) ==
    LET mx == x0 + (x1 - x0 + 1) \div 2
        my == y0 + (y1 - y0 + 1) \div 2
    IN  <<[qx |-> 0, qy |-> 0, x0 |-> x0, y0 |-> y0, x1 |-> mx - 1, y1 |-> my - 1],
          [qx |-> 1, qy |-> 0, x0 |-> mx, y0 |-> y0, x1 |-> x1, y1 |-> my - 1],
          [qx |-> 0, qy |-> 1, x0 |-> x0, y0 |-> my, x1 |-> mx - 1, y1 |-> y1],
          [qx |-> 1, qy |-> 1, x0 |-> mx, y0 |-> my, x1 |-> x1, y1 |-> y1]>>

\* The nodes of the subtree whose root has id (depth, x, y) and the range
\* x0..x1 by y0..y1.
RECURSIVE SubTree(_, _, _, _, _, _, _)
SubTree(g, cap, id, x0, y0, x1, y1) ==
    LET count == CountIn(g, cap, x0, y0, x1, y1)
        split == ShouldSplit(count, cap.max, x0, y0, x1, y1)
        node == [id |-> id, x0 |-> x0, y0 |-> y0, x1 |-> x1, y1 |-> y1,
                 nr_items |-> Cardinality(SlotsIn(g, x0, y0, x1, y1)),
                 count |-> count, leaf |-> ~split]
        q == Quadrants(x0, y0, x1, y1)
    IN  IF split
        THEN {node} \cup
             UNION {SubTree(g, cap,
                            <<id[1] + 1, 2 * id[2] + q[n].qx, 2 * id[3] + q[n].qy>>,
                            q[n].x0, q[n].y0, q[n].x1, q[n].y1) : n \in 1..4}
        ELSE {node}

\* QuadTree::from_world: the tree over the whole backing array of the grid.
QuadTreeFromWorld(g, cap) ==
    [capacity |-> cap,
     nodes |-> SubTree(g, cap, <<0, 0, 0>>, 0, 0, g.length, g.length)]

FromWorld(cap) ==
    /\ ~panicked
    /\ quadtree = <<>>
    /\ quadtree' = <<QuadTreeFromWorld(grid, cap)>>
    /\ UNCHANGED <<bboxed, morton>>
    /\ UNCHANGED gridVars
    /\ UNCHANGED mainVars

\* Indexing, then the quadtree: insert calls on a new grid, then from_world
\* on the completed grid.
InitQuadTree == GridInit(IndexExtents, IndexCellSizes)

NextQuadTree ==
    \/ \E p \in Points(grid, extent), f \in FeatureIds :
            quadtree = <<>> /\ Insert(p, f)
    \/ \E cap \in Capacities : FromWorld(cap)

SpecQuadTree == InitQuadTree /\ [][NextQuadTree]_vars

(***************************************************************************)
(* main                                                                    *)
(*                                                                         *)
(* One action per statement that a claim distinguishes.  A statement that  *)
(* ends in `?` either succeeds or makes main return the error; a panic!    *)
(* aborts the process.  What the calls into parser and formats compute is  *)
(* an input here (nr_items of the quadtree nodes behind the flattened      *)
(* tiles); the order of the calls and the effects main itself shows are    *)
(* modelled.  main's own SquareGrid lives inside parser::World: it is the  *)
(* grid of the example extent, filled by index_with_grid with the features *)
(* of WorldFeatures and read by from_world; every later statement holds    *)
(* `world` and `quadtree` by shared reference only.                        *)
(***************************************************************************)
ItemCounts == {0, 1, 3}

NrItemsInputs == UNION {[1..n -> ItemCounts] : n \in 0..MaxTiles}

\* The mutant of Succ: to_file is left out of the sequence.
Succ_SkipToFile(stmt) ==
    CASE stmt = "args" -> "world"
      [] stmt = "world" -> "index"
      [] stmt = "index" -> "grid_export"
      [] stmt = "grid_export" -> "quadtree"
      [] stmt = "quadtree" -> "quadtree_export"
      [] stmt = "quadtree_export" -> "from_quadtree"
      [] stmt = "from_quadtree" -> "add_content"
      [] stmt = "add_content" -> "flatten"
      [] stmt = "flatten" -> "make_implicit"
      [] stmt = "to_file" -> "make_implicit"
      [] stmt = "make_implicit" -> "return"
      [] OTHER -> "done"

\* The statement that follows `stmt` in main, in source order, up to the
\* `return Ok(());` of line 168.  No statement after that line is reachable.
Succ(stmt) ==
    CASE stmt = "args" -> "world"
      [] stmt = "world" -> "index"
      [] stmt = "index" -> "grid_export"
      [] stmt = "grid_export" -> "quadtree"
      [] stmt = "quadtree" -> "quadtree_export"
      [] stmt = "quadtree_export" -> "from_quadtree"
      [] stmt = "from_quadtree" -> "add_content"
      [] stmt = "add_content" -> "flatten"
      [] stmt = "flatten" -> "to_file"
      [] stmt = "to_file" -> "make_implicit"
      [] stmt = "make_implicit" -> "return"
      [] OTHER -> "done"

\* main returns (Ok or the error of a `?`), or the process panics.
Ends(how) ==
    /\ pc' = "done"
    /\ result' = how

Goes ==
    /\ pc' = Succ(pc)
    /\ UNCHANGED result

\* Lines 41-103: logger, command line, output directory, subprocess
\* configuration, quadtree capacity, metadata class.
ParseArgs ==
    /\ pc = "args"
    /\ \/ /\ ~cfg.args_valid
          /\ Ends("Panic")
       \/ /\ cfg.args_valid
          /\ Ends("Err")
       \/ /\ cfg.args_valid
          /\ Goes
    /\ UNCHANGED <<cfg, tiles, tileset, fs, export>>
    /\ UNCHANGED gridVars
    /\ UNCHANGED auxVars

\* Lines 111-118: parser::World::new(...)?
WorldNew ==
    /\ pc = "world"
    /\ Goes \/ Ends("Err")
    /\ UNCHANGED <<cfg, tiles, tileset, fs, export>>
    /\ UNCHANGED gridVars
    /\ UNCHANGED auxVars

\* The features of the world: an id and the centroid of the feature.
WorldFeatures ==
    <<[id |-> 0, centroid |-> <<5, 3>>], [id |-> 1, centroid |-> <<1, 7>>]>>

\* The grid after the centroids of the features were inserted, in order.
RECURSIVE Indexed(_, _)
Indexed(g, features) ==
    IF features = <<>> THEN g
    ELSE Indexed(Pushed(g, locate_point(g, Head(features).centroid),
                        Head(features).id),
                 Tail(features))

\* The insert calls of index_with_grid.
IndexCalls(g, ext, features) ==
    [n \in DOMAIN features |->
        [fid |-> features[n].id, cell |-> locate_point(g, features[n].centroid),
         inside |-> InExtent(ext, features[n].centroid)]]

\* Line 119: world.index_with_grid(), the one statement that takes `world`
\* by mutable reference: every feature is inserted into world.grid.
IndexWithGrid ==
    /\ pc = "index"
    /\ grid' = Indexed(grid, WorldFeatures)
    /\ calls' = calls \o IndexCalls(grid, extent, WorldFeatures)
    /\ Goes
    /\ UNCHANGED <<cfg, tiles, tileset, fs, export>>
    /\ UNCHANGED <<extent, panicked, located, iter, yielded>>
    /\ UNCHANGED auxVars

\* Lines 122-125: if cli.grid_export { world.export_grid()? }
ExportGrid ==
    /\ pc = "grid_export"
    /\ \/ Goes
       \/ /\ cfg.grid_export
          /\ Ends("Err")
    /\ UNCHANGED <<cfg, tiles, tileset, fs, export>>
    /\ UNCHANGED gridVars
    /\ UNCHANGED auxVars

\* Lines 128-129: QuadTree::from_world(&world, quadtree_capacity)
BuildQuadTree ==
    /\ pc = "quadtree"
    /\ \E cap \in Capacities : quadtree' = <<QuadTreeFromWorld(grid, cap)>>
    /\ Goes
    /\ UNCHANGED <<cfg, tiles, tileset, fs, export>>
    /\ UNCHANGED gridVars
    /\ UNCHANGED <<bboxed, morton>>

\* Lines 132-135: if cli.grid_export { quadtree.export(&world.grid)? }
ExportQuadTree ==
    /\ pc = "quadtree_export"
    /\ \/ Goes
       \/ /\ cfg.grid_export
          /\ Ends("Err")
    /\ UNCHANGED <<cfg, tiles, tileset, fs, export>>
    /\ UNCHANGED gridVars
    /\ UNCHANGED auxVars

\* Lines 154-159: Tileset::from_quadtree(...)
TilesetFromQuadTree ==
    /\ pc = "from_quadtree"
    /\ tileset' = [tileset EXCEPT !.built = TRUE]
    /\ Goes
    /\ UNCHANGED <<cfg, tiles, fs, export>>
    /\ UNCHANGED gridVars
    /\ UNCHANGED auxVars

\* Line 162: tileset.add_content(cli.qtree_export_levels)
AddContent ==
    /\ pc = "add_content"
    /\ tileset' = [tileset EXCEPT !.content = TRUE]
    /\ Goes
    /\ UNCHANGED <<cfg, tiles, fs, export>>
    /\ UNCHANGED gridVars
    /\ UNCHANGED auxVars

\* A tile of the list that no worker has taken up.
NotExported == [phase |-> "queued", generator |-> 0, outcome |-> "none",
                optimizer |-> 0]

\* Line 163: let tiles = tileset.flatten(cli.qtree_export_levels)
Flatten ==
    /\ pc = "flatten"
    /\ tiles' = [t \in DOMAIN cfg.nr_items |-> [id |-> t, nr_items |-> cfg.nr_items[t]]]
    /\ export' = [t \in DOMAIN cfg.nr_items |-> NotExported]
    /\ Goes
    /\ UNCHANGED <<cfg, tileset, fs>>
    /\ UNCHANGED gridVars
    /\ UNCHANGED auxVars

\* What to_file serialises: the tileset as it is when the call is made.
Serialised(ts) == IF ts.implicit THEN "with_implicit" ELSE "explicit"

\* Line 164: tileset.to_file(tileset_path)?
ToFile ==
    /\ pc = "to_file"
    /\ \/ /\ fs' = [fs EXCEPT !.manifest = Serialised(tileset),
                              !.manifest_writes = @ + 1]
          /\ Goes
       \/ /\ Ends("Err")
          /\ UNCHANGED fs
    /\ UNCHANGED <<cfg, tiles, tileset, export>>
    /\ UNCHANGED gridVars
    /\ UNCHANGED auxVars

\* The mutant of MakeImplicit: make_implicit takes the grid by mutable
\* reference and inserts into it.
MakeImplicit_MutGrid ==
    /\ pc = "make_implicit"
    /\ tileset' = [tileset EXCEPT !.implicit = TRUE]
    /\ grid' = Pushed(grid, <<1, 1>>, 0)
    /\ Goes
    /\ UNCHANGED <<cfg, tiles, fs, export>>
    /\ UNCHANGED <<extent, calls, panicked, located, iter, yielded>>
    /\ UNCHANGED auxVars

\* Line 166: tileset.make_implicit(&world.grid, &quadtree)
MakeImplicit ==
    /\ pc = "make_implicit"
    /\ tileset' = [tileset EXCEPT !.implicit = TRUE]
    /\ Goes
    /\ UNCHANGED <<cfg, tiles, fs, export>>
    /\ UNCHANGED gridVars
    /\ UNCHANGED auxVars

\* Line 168: return Ok(());
ReturnOk ==
    /\ pc = "return"
    /\ Ends("Ok")
    /\ UNCHANGED <<cfg, tiles, tileset, fs, export>>
    /\ UNCHANGED gridVars
    /\ UNCHANGED auxVars

InitMain ==
    /\ pc = "args"
    /\ result = "none"
    /\ cfg \in [debug : BOOLEAN, grid_export : BOOLEAN, args_valid : BOOLEAN,
                exe_gltfpack : BOOLEAN, inputs_dir_exists : BOOLEAN,
                nr_items : NrItemsInputs]
    /\ tiles = <<>>
    /\ tileset = NoTileset
    /\ fs = [NoFiles EXCEPT !.inputs_dir = cfg.inputs_dir_exists]
    /\ export = <<>>
    /\ extent = ExampleExtent
    /\ grid = SquareGridNew(extent, 24)
    /\ calls = <<>>
    /\ panicked = FALSE
    /\ located = <<>>
    /\ iter = NoIter
    /\ yielded = <<>>
    /\ AuxIdle

NextMain ==
    \/ ParseArgs
    \/ WorldNew
    \/ IndexWithGrid
    \/ ExportGrid
    \/ BuildQuadTree
    \/ ExportQuadTree
    \/ TilesetFromQuadTree
    \/ AddContent
    \/ Flatten
    \/ ToFile
    \/ MakeImplicit
    \/ ReturnOk

SpecMain == InitMain /\ [][NextMain]_vars

(***************************************************************************)
(* main, lines 170-360: the export loop.                                   *)
(*                                                                         *)
(* These statements follow the `return Ok(());` of line 168, so no run of  *)
(* main reaches them and NextMain has none of them.  They are modelled as  *)
(* written, and SpecExportLoop runs them from the state main is in when it *)
(* returns at line 168, to show what the block does when control is let    *)
(* into it.                                                                *)
(***************************************************************************)
MaxWorkers == 2     \* tiles in the list the export loop is run on

\* Lines 172-181: create <output>/tiles and <output>/inputs unless present.
CreateDirs ==
    /\ pc = "create_dirs"
    /\ \/ /\ fs' = [fs EXCEPT !.tiles_dir = TRUE, !.inputs_dir = TRUE]
          /\ pc' = "par_iter"
          /\ UNCHANGED result
       \/ /\ Ends("Err")
          /\ UNCHANGED fs
    /\ UNCHANGED <<cfg, tiles, tileset, export>>
    /\ UNCHANGED gridVars
    /\ UNCHANGED auxVars

\* Lines 200-288 and 352-354, one worker taking up `tile`: an empty tile is
\* logged and done; for any other the input file is written (a panic if it
\* cannot be created) and the command line is put together.
WorkerStart(t) ==
    /\ pc = "par_iter"
    /\ export[t].phase = "queued"
    /\ \/ /\ tiles[t].nr_items > 0
          /\ export' = [export EXCEPT ![t].phase = "generator"]
          /\ UNCHANGED <<pc, result>>
       \/ /\ tiles[t].nr_items > 0
          /\ Ends("Panic")
          /\ UNCHANGED export
       \/ /\ ~(tiles[t].nr_items > 0)
          /\ export' = [export EXCEPT ![t].phase = "done"]
          /\ UNCHANGED <<pc, result>>
    /\ UNCHANGED <<cfg, tiles, tileset, fs>>
    /\ UNCHANGED gridVars
    /\ UNCHANGED auxVars

GeneratorOutcomes == {"ok", "exit_nonzero", "spawn_error", "no_output"}

\* Lines 289-317: the generator is run once and its result is logged.
RunGenerator(t) ==
    /\ pc = "par_iter"
    /\ export[t].phase = "generator"
    /\ \E outcome \in GeneratorOutcomes :
        export' = [export EXCEPT ![t].phase = "optimizer",
                                 ![t].generator = @ + 1,
                                 ![t].outcome = outcome]
    /\ UNCHANGED <<pc, result, cfg, tiles, tileset, fs>>
    /\ UNCHANGED gridVars
    /\ UNCHANGED auxVars

\* Lines 319-351: gltfpack is run on output_file when exe_gltfpack is set
\* (the format is always 3D Tiles past line 82); its result is logged.
RunOptimizer(t) ==
    /\ pc = "par_iter"
    /\ export[t].phase = "optimizer"
    /\ export' = [export EXCEPT ![t].phase = "done",
                                ![t].optimizer = IF cfg.exe_gltfpack THEN @ + 1 ELSE @]
    /\ UNCHANGED <<pc, result, cfg, tiles, tileset, fs>>
    /\ UNCHANGED gridVars
    /\ UNCHANGED auxVars

\* Lines 355-359: for_each returns when every closure has; then the inputs
\* directory is removed unless debug logging is enabled.
RemoveInputsDir ==
    /\ pc = "par_iter"
    /\ \A t \in DOMAIN export : export[t].phase = "done"
    /\ \/ /\ fs' = [fs EXCEPT !.inputs_dir = IF cfg.debug THEN @ ELSE FALSE]
          /\ pc' = "return_end"
          /\ UNCHANGED result
       \/ /\ ~cfg.debug
          /\ Ends("Err")
          /\ UNCHANGED fs
    /\ UNCHANGED <<cfg, tiles, tileset, export>>
    /\ UNCHANGED gridVars
    /\ UNCHANGED auxVars

\* Line 360: Ok(())
ReturnOkEnd ==
    /\ pc = "return_end"
    /\ Ends("Ok")
    /\ UNCHANGED <<cfg, tiles, tileset, fs, export>>
    /\ UNCHANGED gridVars
    /\ UNCHANGED auxVars

InitExportLoop ==
    /\ pc = "create_dirs"
    /\ result = "none"
    /\ cfg \in [debug : BOOLEAN, grid_export : {FALSE}, args_valid : {TRUE},
                exe_gltfpack : BOOLEAN, inputs_dir_exists : BOOLEAN,
                nr_items : UNION {[1..n -> ItemCounts] : n \in 0..MaxWorkers}]
    /\ tiles = [t \in DOMAIN cfg.nr_items |-> [id |-> t, nr_items |-> cfg.nr_items[t]]]
    /\ export = [t \in DOMAIN cfg.nr_items |-> NotExported]
    /\ tileset = [built |-> TRUE, content |-> TRUE, implicit |-> TRUE]
    /\ fs = [NoFiles EXCEPT !.manifest = "explicit", !.manifest_writes = 1,
                            !.inputs_dir = cfg.inputs_dir_exists]
    /\ extent = ExampleExtent
    /\ grid = Indexed(SquareGridNew(extent, 24), WorldFeatures)
    /\ calls = IndexCalls(SquareGridNew(extent, 24), extent, WorldFeatures)
    /\ panicked = FALSE
    /\ located = <<>>
    /\ iter = NoIter
    /\ yielded = <<>>
    /\ quadtree \in {<<QuadTreeFromWorld(grid, cap)>> : cap \in Capacities}
    /\ bboxed = <<>>
    /\ morton = <<>>

NextExportLoop ==
    \/ CreateDirs
    \/ \E t \in DOMAIN export : WorkerStart(t)
    \/ \E t \in DOMAIN export : RunGenerator(t)
    \/ \E t \in DOMAIN export : RunOptimizer(t)
    \/ RemoveInputsDir
    \/ ReturnOkEnd

SpecExportLoop == InitExportLoop /\ [][NextExportLoop]_vars

\* main as it runs, and beside it the export loop run from its first
\* statement.
InitRun == InitMain \/ InitExportLoop

NextRun == NextMain \/ NextExportLoop

SpecRun == InitRun /\ [][NextRun]_vars

(***************************************************************************)
(* morton_encode                                                           *)
(***************************************************************************)
MaxLevel == 2        \* deepest level whose quadrant grid is encoded
MaxMortonCalls == 2  \* morton_encode calls in a run

\* The positions (x, y) of the quadrant grid of a level: 2^level per side.
QuadrantPositions(level) == (0..(2 ^ level - 1)) \X (0..(2 ^ level - 1))

\* pub fn morton_encode(x: &f64, y: &f64) -> u128 { 1 }
morton_encode(x, y) == 1

MortonEncode(x, y) ==
    /\ Len(morton) < MaxMortonCalls
    /\ morton' = Append(morton, [x |-> x, y |-> y, index |-> morton_encode(x, y)])
    /\ UNCHANGED <<quadtree, bboxed>>
    /\ UNCHANGED gridVars
    /\ UNCHANGED mainVars

\* A grid that is left alone while something else is exercised.
GridIdle ==
    /\ extent = ExampleExtent
    /\ grid = SquareGridNew(extent, 24)
    /\ calls = <<>>
    /\ panicked = FALSE
    /\ located = <<>>
    /\ iter = NoIter
    /\ yielded = <<>>

InitMorton ==
    /\ GridIdle
    /\ MainIdle
    /\ AuxIdle

NextMorton ==
    \E level \in 1..MaxLevel :
        \E p \in QuadrantPositions(level) : MortonEncode(p[1], p[2])

SpecMorton == InitMorton /\ [][NextMorton]_vars

(***************************************************************************)
(* Properties of the grid.                                                 *)
(***************************************************************************)
\* Every (column, row, position) of the backing array that holds an id.
Slots ==
    UNION {{<<i, j, k>> : k \in DOMAIN grid.data[i][j]} :
            i \in DOMAIN grid.data, j \in 0..grid.length}

StoredAt(f) == {s \in Slots : grid.data[s[1]][s[2]][s[3]] = f}

EachInsertedOnceInside ==
    /\ \A n \in DOMAIN calls : calls[n].inside
    /\ \A n, m \in DOMAIN calls : n # m => calls[n].fid # calls[m].fid

\* C1: when every feature id was inserted once, with a point of the extent,
\* each inserted id is stored in exactly one slot of the grid, in the cell
\* insert returned, and the grid stores as many ids as insert was called.
C1_EachFeatureStoredOnce ==
    EachInsertedOnceInside =>
        /\ ~panicked
        /\ Cardinality(Slots) = Len(calls)
        /\ \A n \in DOMAIN calls :
            /\ Cardinality(StoredAt(calls[n].fid)) = 1
            /\ \A s \in StoredAt(calls[n].fid) : <<s[1], s[2]>> = calls[n].cell

\* Two features of the extent were inserted into one cell.
C1_Witness ==
    /\ EachInsertedOnceInside
    /\ Len(calls) >= 2
    /\ calls[1].cell = calls[2].cell

LocatedInside == located # <<>> /\ InExtent(extent, located[1].point)

\* C2 (as claimed): with the extent's minimum corner at (0,0) and cellsize 1,
\* locate_point((x, y)) is [ceil(x), ceil(y)] for every point of the extent.
C2_LocateFromExtentOrigin ==
    (LocatedInside /\ extent[1] = 0 /\ extent[2] = 0 /\ grid.cellsize = 1) =>
        located[1].cell = <<Ceil(located[1].point[1], Scale),
                            Ceil(located[1].point[2], Scale)>>

LongerSide(ext) ==
    IF ext[4] - ext[1] > ext[5] - ext[2] THEN ext[4] - ext[1] ELSE ext[5] - ext[2]

\* C3 (as claimed): length is ceil(max(dx, dy) / cellsize), and 5 for the
\* extent [0,0,0,4,4,4] with cellsize 1.
C3_LengthFiveForExample ==
    /\ grid.length = Ceil(LongerSide(grid.bbox), grid.cellsize * Scale)
    /\ (extent = ExampleExtent /\ grid.cellsize = 1) => grid.length = 5

\* C3 (amended): length is ceil((longer side of the extent + 20) / cellsize),
\* the 10-unit buffer counted on both sides, and 24 for the extent
\* [0,0,0,4,4,4] with cellsize 1.
C3_LengthOfBufferedExtent ==
    /\ grid.length * grid.cellsize * Scale >= LongerSide(extent) + 20 * Scale
    /\ (grid.length - 1) * grid.cellsize * Scale < LongerSide(extent) + 20 * Scale
    /\ (extent = ExampleExtent /\ grid.cellsize = 1) => grid.length = 24

C3_Witness ==
    /\ extent = ExampleExtent
    /\ grid.cellsize = 1
    /\ grid.length = 24
    /\ located # <<>>

\* C4: for a point of the extent both components of locate_point are in
\* 0..length, so the cell insert would index is inside the backing array.
C4_LocatedInsideArray ==
    LocatedInside =>
        /\ located[1].cell[1] \in 0..grid.length
        /\ located[1].cell[2] \in 0..grid.length
        /\ InBounds(grid, located[1].cell)

\* The extent's maximum corner lands in the last column of the array.
C4_Witness ==
    /\ LocatedInside
    /\ located[1].point = <<extent[4], extent[5]>>
    /\ located[1].cell[1] = grid.length

\* C5: the iterator returns the elements of the backing array one column
\* after the other, each column in ascending row order, every element once
\* with its cell (empty or not), and is exhausted after (length+1)^2 items.
C5_IterationColumnMajor ==
    LET n == grid.length + 1
    IN  /\ Len(yielded) <= n * n
        /\ \A k \in DOMAIN yielded :
            /\ yielded[k].at = <<(k - 1) \div n, (k - 1) % n>>
            /\ yielded[k].cell = grid.data[yielded[k].at[1]][yielded[k].at[2]]
        /\ iter.exhausted => Len(yielded) = n * n
        /\ (iter.active /\ Len(yielded) = n * n) =>
                IterStep(grid.data, iter.row_index, iter.col_index).item = <<>>

\* A pass is over, and it returned empty cells and a cell with a feature.
C5_Witness ==
    /\ iter.exhausted
    /\ \E k \in DOMAIN yielded : yielded[k].cell = <<>>
    /\ \E k \in DOMAIN yielded : yielded[k].cell # <<>>

(***************************************************************************)
(* Properties of main.                                                     *)
(***************************************************************************)
Completed == pc = "done" /\ result = "Ok"

NonEmpty(t) == tiles[t].nr_items > 0

\* C6 (as claimed): in a complete run the generator is invoked exactly once
\* for every flattened tile whose node has nr_items > 0, and never for a
\* tile with nr_items = 0.
C6_OneInvocationPerNonEmptyTile ==
    Completed =>
        \A t \in DOMAIN tiles :
            export[t].generator = IF NonEmpty(t) THEN 1 ELSE 0

\* C7 (as claimed): a complete run has run the batch over all tiles: every
\* non-empty tile has the outcome of its own generator run, a content file
\* or a logged failure, whatever happened to the other tiles.
C7_BatchCoversEveryNonEmptyTile ==
    Completed =>
        \A t \in DOMAIN tiles :
            NonEmpty(t) =>
                export[t].outcome \in GeneratorOutcomes

\* C8: no generator runs before to_file has written the manifest, and the
\* manifest is there at the end of every run in which to_file succeeded,
\* whatever the tiles' exports came to.
C8_ManifestWrittenFirstAndKept ==
    /\ (\E t \in DOMAIN export : export[t].generator > 0) => fs.manifest # "absent"
    /\ fs.manifest_writes > 0 => fs.manifest # "absent"
    /\ Completed => fs.manifest # "absent"

\* A complete run with tiles to export, and its manifest.
C8_Witness ==
    /\ Completed
    /\ fs.manifest # "absent"
    /\ \E t \in DOMAIN tiles : NonEmpty(t)

\* C9 (as claimed): the manifest holds the implicit-subtree bitstreams, that
\* is, make_implicit ran before to_file serialised the tileset, and the
\* manifest is written exactly once.
C9_ManifestHoldsImplicitTiling ==
    /\ fs.manifest # "absent" => fs.manifest = "with_implicit"
    /\ fs.manifest_writes <= 1
    /\ Completed => fs.manifest_writes = 1

\* C10 (as claimed): the directory <output>/inputs exists while an export
\* worker is running, and when main has returned it is removed unless debug
\* logging is enabled, and kept when it is.
C10_InputsDirLifetime ==
    /\ (\E t \in DOMAIN export : export[t].phase \in {"generator", "optimizer"})
            => fs.inputs_dir
    /\ Completed => (fs.inputs_dir <=> cfg.debug)

(***************************************************************************)
(* Properties of morton_encode, the quadtree, cell ids and cell boxes.     *)
(***************************************************************************)
\* C11 (as claimed): morton_encode gives two distinct positions (x, y) of a
\* quadrant grid two distinct traversal indices.
C11_MortonIndexPerPosition ==
    \A i, j \in DOMAIN morton :
        <<morton[i].x, morton[i].y>> # <<morton[j].x, morton[j].y>>
            => morton[i].index # morton[j].index

Nodes == IF quadtree = <<>> THEN {} ELSE quadtree[1].nodes

CellsOf(n) == (n.x0..n.x1) \X (n.y0..n.y1)

ChildrenOf(n) ==
    {c \in Nodes : /\ c.id[1] = n.id[1] + 1
                   /\ c.id[2] \div 2 = n.id[2]
                   /\ c.id[3] \div 2 = n.id[3]}

RECURSIVE SumItems(_)
SumItems(ns) ==
    IF ns = {} THEN 0
    ELSE LET n == CHOOSE n \in ns : TRUE IN n.nr_items + SumItems(ns \ {n})

RECURSIVE SumCells(_)
SumCells(cells) ==
    IF cells = {} THEN 0
    ELSE LET c == CHOOSE c \in cells : TRUE
         IN  Len(grid.data[c[1]][c[2]]) + SumCells(cells \ {c})

Root == CHOOSE n \in Nodes : n.id = <<0, 0, 0>>

\* C12: every non-leaf node has exactly four children, every cell of its
\* range lies in exactly one of them and they cover nothing else, and its
\* nr_items is the sum of theirs; a leaf's nr_items is the sum of the feature
\* counts of its cells; the root's nr_items is the number of features
\* inserted.
C12_QuadTreePartition ==
    quadtree # <<>> =>
        /\ \A n \in Nodes :
            IF n.leaf
            THEN /\ ChildrenOf(n) = {}
                 /\ n.nr_items = SumCells(CellsOf(n))
            ELSE /\ Cardinality(ChildrenOf(n)) = 4
                 /\ \A c \in ChildrenOf(n) : CellsOf(c) \subseteq CellsOf(n)
                 /\ \A cell \in CellsOf(n) :
                        Cardinality({c \in ChildrenOf(n) : cell \in CellsOf(c)}) = 1
                 /\ n.nr_items = SumItems(ChildrenOf(n))
        /\ \A n, m \in Nodes : n.id = m.id => n = m
        /\ Root.nr_items = Len(calls)

\* A tree whose root was split, over a grid with two features.
C12_Witness ==
    /\ quadtree # <<>>
    /\ ~Root.leaf
    /\ Root.nr_items = 2

\* C13: from_world ends with a finite tree no deeper than the grid is long,
\* in which a node has children iff its count under the criterion exceeds the
\* maximum and its range is at least 2 x 2; so a leaf is within the maximum,
\* in count and in nr_items, or covers a range that cannot be halved.
C13_SplitIffOverCapacityAndHalvable ==
    quadtree # <<>> =>
        LET max == quadtree[1].capacity.max
        IN  \A n \in Nodes :
                LET wide == n.x1 - n.x0 + 1 >= 2 /\ n.y1 - n.y0 + 1 >= 2
                IN  /\ n.id[1] <= grid.length + 1
                    /\ n.x0 <= n.x1 /\ n.y0 <= n.y1
                    /\ (ChildrenOf(n) # {}) <=> (n.count > max /\ wide)
                    /\ n.leaf <=> ChildrenOf(n) = {}
                    /\ n.leaf => (n.count <= max /\ n.nr_items <= max) \/ ~wide

\* A leaf over capacity that cannot be split, beside a leaf within capacity.
C13_Witness ==
    /\ quadtree # <<>>
    /\ \E n \in Nodes : n.leaf /\ n.nr_items > quadtree[1].capacity.max
    /\ \E n \in Nodes : n.leaf /\ n.id[1] > 0 /\ n.nr_items <= quadtree[1].capacity.max

C15_GridWriteOnceThenReadOnly ==
    [][/\ (grid' # grid \/ calls' # calls) => pc = "index"
       /\ quadtree' # quadtree => pc = "quadtree" /\ quadtree = <<>>
       /\ pc \notin {"args", "world", "index", "grid_export"} =>
              /\ grid' = grid
              /\ calls' = calls
              /\ quadtree' # <<>>
              /\ quadtree'[1] = QuadTreeFromWorld(grid', quadtree'[1].capacity)
       /\ quadtree # <<>> => quadtree' = quadtree]_vars

\* An export worker at its generator, over the indexed grid and its quadtree.
C15_Witness ==
    /\ pc = "par_iter"
    /\ \E t \in DOMAIN export : export[t].phase = "generator"
    /\ Len(calls) = Len(WorldFeatures)
    /\ \A n \in DOMAIN calls :
           \E s \in StoredAt(calls[n].fid) : <<s[1], s[2]>> = calls[n].cell
    /\ quadtree # <<>>
    /\ Root.nr_items = Len(WorldFeatures)

\* C16: once the grid was iterated to its end, every feature an insert
\* stored under the cell id c was yielded in the cell paired with the id c.
C16_IterationPairsInsertedCellId ==
    iter.exhausted =>
        \A n \in DOMAIN calls :
            InBounds(grid, calls[n].cell) =>
                \E k \in DOMAIN yielded :
                    /\ yielded[k].id = calls[n].cell
                    /\ \E i \in DOMAIN yielded[k].cell :
                           yielded[k].cell[i] = calls[n].fid

\* C17: for a point of the extent, the box cell_bbox returns for the cell id
\* locate_point returned contains the point in x and in y.
C17_CellBboxContainsPoint ==
    (LocatedInside /\ bboxed # <<>>) =>
        LET p == located[1].point
            b == bboxed[1].bbox
        IN  /\ b[1] <= p[1] /\ p[1] <= b[4]
            /\ b[2] <= p[2] /\ p[2] <= b[5]

====
